---- MODULE Spec2Model ----
(***************************************************************************)
(* Model of the IRC matchmaking layer of CruceGame.                        *)
(*                                                                         *)
(* The repository holds two translation units that define the same public  *)
(* functions and the same global currentRoom: src/unnamed/part_000 and     *)
(* src/src/irc/irc.c.  Only one of them can be linked into a program; the  *)
(* variable `unit` records which one, and is fixed by Init.  Functions     *)
(* whose text is the same in both files have one definition; irc_connect   *)
(* and irc_toggleRoomStatus differ and have one definition per file.       *)
(*                                                                         *)
(* Text is a sequence of one-character strings, so that strstr, strchr,    *)
(* sprintf and the pointer arithmetic of the parser are computed, not      *)
(* assumed.  A handler is a sequence of steps, one per call of the         *)
(* transport (network_connect, network_send, network_read,                 *)
(* network_readLine, network_disconnect); the code between two transport   *)
(* calls belongs to the step of the call that precedes it.                 *)
(***************************************************************************)
EXTENDS Integers, Sequences, FiniteSets, TLC

VARIABLES unit, topic, joined, inq, unsol,
          currentRoom, pc, op, loc, io, ret

vars == <<unit, topic, joined, inq, unsol, currentRoom, pc, op, loc, io, ret>>

(***************************************************************************)
(* Bounds of the model.                                                    *)
(***************************************************************************)
\* The last room number irc_getAvailableRoom tries, and the last room the
\* server has; the loop's literal in the code is 999.
LAST_ROOM == 1
\* How many unsolicited server lines the environment may queue in a run.
MaxUnsolicited == 1

(***************************************************************************)
(* Program constants.                                                      *)
(***************************************************************************)
NO_ERROR == 0
MESSAGE_TOO_LONG == -21
PARAMETER_OUT_OF_RANGE == -23
LEAVE_ROOM_ERROR == -24
TOGGLE_ROOM_STATUS_ERROR == -25
\* The longest nickname irc_connect accepts, the longest lobby message and
\* the highest room number irc_joinRoom and irc_toggleRoomStatus accept.
MAX_ROOM_NUMBER == 999
MAX_NICK == 9
MAX_LOBBY_MESSAGE == 512
\* What network_connect, network_send, network_read and network_disconnect
\* return on failure: a code other than NO_ERROR, negative for a read.
NETWORK_ERROR == -11
NetworkErrors == {NETWORK_ERROR}

CRLF == <<"\r","\n">>
LOBBY_CHANNEL == <<"#","c","r","u","c","e","-","l","o","b","b","y">>
ROOM_PREFIX == <<"#","c","r","u","c","e","-","g","a","m","e">>
WAITING == <<"W","A","I","T","I","N","G">>
PLAYING == <<"P","L","A","Y","I","N","G">>
NO_TOPIC == <<":","N","o"," ","t","o","p","i","c"," ","i","s"," ","s","e","t">>

\* The sessions: one program each, with its own currentRoom and its own
\* connection to the server.  The specifications of one program have one
\* session, the specification of two players racing has two.
OneSession == {1}
TwoSessions == {1, 2}
Sessions == DOMAIN pc

(***************************************************************************)
(* The C string functions the code uses.  A pointer into a string is a     *)
(* 0-based offset; NULL is a value that is no offset.                      *)
(***************************************************************************)
NULL == -1

Min(S) == CHOOSE x \in S : \A y \in S : x <= y

\* strlen(str + from)
strlen(str, from) == Len(str) - from

\* strchr(str + from, c): the offset of the first c at or after from, or NULL
strchr(str, from, c) ==
    LET hits == {i \in from .. Len(str) - 1 : str[i + 1] = c}
    IN  IF hits = {} THEN NULL ELSE Min(hits)

\* strstr(hay, needle) != NULL
strstr(hay, needle) ==
    \E i \in 1 .. Len(hay) - Len(needle) + 1 :
        SubSeq(hay, i, i + Len(needle) - 1) = needle

\* strncpy(dst, str + from, n); dst[n] = '\0', for a source with no NUL
\* in its first n characters
strncpy(str, from, n) == SubSeq(str, from + 1, from + n)

Digit(d) == <<"0","1","2","3","4","5","6","7","8","9">>[d + 1]

\* printf's %d of a number that is not negative
RECURSIVE Decimal(_)
Decimal(n) ==
    IF n < 10 THEN <<Digit(n)>> ELSE Decimal(n \div 10) \o <<Digit(n % 10)>>

RECURSIVE ZeroPad(_, _)
ZeroPad(digits, width) ==
    IF Len(digits) >= width THEN digits ELSE ZeroPad(<<"0">> \o digits, width)

\* printf's %03d: the sign counts toward the width of three
Format03d(n) ==
    IF n < 0 THEN <<"-">> \o ZeroPad(Decimal(-n), 2) ELSE ZeroPad(Decimal(n), 3)

\* sprintf(roomName, ROOM_FORMAT, roomNumber)
RoomName(roomNumber) == ROOM_PREFIX \o Format03d(roomNumber)

(***************************************************************************)
(* The command texts.                                                      *)
(***************************************************************************)
S_PASS == <<"P","A","S","S"," ","*","\r","\n">>
S_NICK == <<"N","I","C","K"," ">>
S_USER == <<"U","S","E","R"," ">>
S_MODE == <<" ","8"," ","*"," ",":">>
S_JOIN == <<"J","O","I","N"," ">>
S_QUIT == <<"Q","U","I","T","\r","\n">>
S_PART == <<"P","A","R","T"," ">>
S_PRIVMSG == <<"P","R","I","V","M","S","G"," ">>
S_TOPIC == <<"T","O","P","I","C"," ">>
S_NAMES == <<"N","A","M","E","S"," ">>
S_INVITE == <<"I","N","V","I","T","E"," ">>

\* sprintf(nickCommand, "NICK %s\r\n", name)
NickCommand(name) == S_NICK \o name \o CRLF
\* sprintf(userCommand, "USER %s 8 * :%s\r\n", name, name)
UserCommand(name) == S_USER \o name \o S_MODE \o name \o CRLF
\* sprintf(joinCommand, "JOIN %s\r\n", channel)
JoinCommand(channel) == S_JOIN \o channel \o CRLF
\* sprintf(partCommand, "PART %s\r\n", roomName)
PartCommand(roomName) == S_PART \o roomName \o CRLF
\* sprintf(lobbyMessageCommand, "PRIVMSG %s %s\r\n", LOBBY_CHANNEL, message)
LobbyMessageCommand(message) ==
    S_PRIVMSG \o LOBBY_CHANNEL \o <<" ">> \o message \o CRLF
\* sprintf(fetchTopicCommand, "TOPIC %s\r\n", roomName)
FetchTopicCommand(roomName) == S_TOPIC \o roomName \o CRLF
\* sprintf(topicCommand, "TOPIC %s %s\r\n", roomName, status)
SetTopicCommand(roomName, status) ==
    S_TOPIC \o roomName \o <<" ">> \o status \o CRLF
\* sprintf(namesCommand, "NAMES %s\r\n", channel)
NamesCommand(channel) == S_NAMES \o channel \o CRLF
\* sprintf(inviteCommand, "INVITE %s %s\r\n", roomName, nickname)
InviteCommand(roomName, nickname) ==
    S_INVITE \o roomName \o <<" ">> \o nickname \o CRLF

\* part_000: the one buffer irc_connect sends,
\* sprintf(commandSequence, "PASS *\r\n%s%s%s", nick, user, join)
CommandSequence(name) ==
    S_PASS \o NickCommand(name) \o UserCommand(name)
           \o JoinCommand(LOBBY_CHANNEL)

\* irc.c: the four buffers irc_connect sends, one network_send each
ConnectCommands(name) ==
    << S_PASS, NickCommand(name), UserCommand(name),
       JoinCommand(LOBBY_CHANNEL) >>

(***************************************************************************)
(* Return values.  A function's result is an int, a pointer to a string,   *)
(* NULL, a parsed message, or the outcome of undefined behaviour.          *)
(***************************************************************************)
NoRet == [kind |-> "none", val |-> 0]
IntRet(v) == [kind |-> "int", val |-> v]
PtrRet(str) == [kind |-> "ptr", val |-> str]
NullRet == [kind |-> "null", val |-> 0]
MsgRet(m) == [kind |-> "msg", val |-> m]
UndefinedRet(what) == [kind |-> "undefined", val |-> what]

\* What a build may do once the code has run into undefined behaviour.
Undefined == {UndefinedRet("crash"), UndefinedRet("garbage")}

(***************************************************************************)
(* getNextMessage: the parse of the line that network_readLine returned.   *)
(* The result is the set of outcomes: one message where the pointer        *)
(* arithmetic stays inside the line, Undefined where it does not (no       *)
(* prefix: prefixEnd is read uninitialized; no space where strchr is       *)
(* expected to find one: arithmetic on NULL; a negative length given to    *)
(* strncpy).                                                               *)
(***************************************************************************)
getNextMessage(str) ==
    IF Len(str) = 0 \/ str[1] # ":" THEN Undefined
    ELSE
    LET space1 == strchr(str, 0, " ") IN
    IF space1 = NULL THEN Undefined
    ELSE
    LET prefixEnd == space1 - 1
        prefixLen == prefixEnd - 0 - 1
        space2    == strchr(str, prefixEnd + 2, " ")
    IN
    IF space2 = NULL THEN Undefined
    ELSE
    LET trailingStart == space2 + 1
        trailingLen   == strlen(str, trailingStart) - 1
        commandStart  == prefixEnd + 2
        commandEnd    == trailingStart - 2
        commandLen    == commandEnd - commandStart + 1
    IN
    IF prefixLen < 0 \/ trailingLen < 0 \/ commandLen < 0 THEN Undefined
    ELSE { MsgRet([ prefix   |-> strncpy(str, 1, prefixLen),
                    command  |-> strncpy(str, commandStart, commandLen),
                    trailing |-> strncpy(str, trailingStart, trailingLen) ]) }

(***************************************************************************)
(* irc_toggleRoomStatus: what the function does with the line it read.     *)
(***************************************************************************)
\* part_000: the status the function sets next, or "none" when the line
\* names neither status and the function returns TOGGLE_ROOM_STATUS_ERROR
NewTopic(recvBuffer) ==
    IF strstr(recvBuffer, WAITING) THEN PLAYING
    ELSE IF strstr(recvBuffer, PLAYING) THEN WAITING
    ELSE <<>>

\* irc.c: the function's return value
TopicStatus(recvBuffer) ==
    IF strstr(recvBuffer, NO_TOPIC) THEN 0
    ELSE IF strstr(recvBuffer, WAITING) THEN 1
    ELSE IF strstr(recvBuffer, PLAYING) THEN 2
    ELSE -1

(***************************************************************************)
(* irc_getNames: the string returned for the line read: the line from its  *)
(* first ':' on, the ':' included.  With no ':' in the line strchr gives   *)
(* NULL and strlen(NULL) is undefined; with one, strcpy writes the         *)
(* terminating NUL one byte past the malloc'ed block.                      *)
(***************************************************************************)
NamesOf(buffer) ==
    LET namesListStart == strchr(buffer, 0, ":") IN
    IF namesListStart = NULL THEN Undefined
    ELSE { PtrRet(SubSeq(buffer, namesListStart + 1, Len(buffer))) }
           \cup Undefined

(***************************************************************************)
(* The server and the transport, which the repository does not hold: the   *)
(* server answers a topic fetch and a NAMES with one line, queued to the   *)
(* session that asked; a transport call either succeeds or fails; a read   *)
(* that fails loses the line that was due.                                 *)
(***************************************************************************)
Rooms == 0 .. LAST_ROOM
\* A room's topic is its text; a room whose topic is not set has none.
NoTopic == <<>>
Statuses == {NoTopic, WAITING, PLAYING}

alice == <<"a","l","i","c","e">>
bob == <<"b","o","b">>
carol == <<"c","a","r","o","l">>
\* The nicknames in the lobby, in the server's order.
LobbyNames == alice \o <<" ">> \o bob \o <<" ">> \o carol

R_331 == <<"3","3","1"," ">>
R_332 == <<"3","3","2"," ">>
R_353 == <<"3","5","3"," ","="," ">>
R_403 == <<"4","0","3"," ">>
R_NOSUCH == <<" ",":","N","o"," ","s","u","c","h"," ","c","h","a","n","n","e","l">>

\* The server's answer to "TOPIC <channel>" for room number n.
TopicReply(n) ==
    IF n \notin Rooms THEN R_403 \o RoomName(n) \o R_NOSUCH \o CRLF
    ELSE IF topic[n] = NoTopic
         THEN R_331 \o RoomName(n) \o <<" ">> \o NO_TOPIC \o CRLF
    ELSE R_332 \o RoomName(n) \o <<" ",":">> \o topic[n] \o CRLF

\* The server's answer to "NAMES <channel>".
NamesReply(channel) ==
    R_353 \o channel \o <<" ",":">>
          \o (IF channel = LOBBY_CHANNEL THEN LobbyNames ELSE alice) \o CRLF

\* Lines the server sends unasked: a ping, and another user's message.
PING_LINE == <<"P","I","N","G"," ","i","r","c",".","e","x","a","m","p","l","e","\r","\n">>
PRIVMSG_LINE == <<":","n","i","c","k","!","u","s","e","r","@","h","o","s","t"," ","P","R","I","V","M","S","G"," ","#","r","o","o","m"," ",":","h","e","l","l","o"," ","t","h","e","r","e","\n">>
UnsolicitedLines == {PING_LINE, PRIVMSG_LINE}

TransportResults == {NO_ERROR} \cup NetworkErrors

RECURSIVE NextLine_Filtered(_)
\* A read that passes over the lines the server sent unasked
NextLine_Filtered(queue) ==
    IF Len(queue) > 1 /\ Head(queue) \in UnsolicitedLines
    THEN NextLine_Filtered(Tail(queue)) ELSE Head(queue)

\* The line a read that succeeds puts into the caller's buffer: the one
\* that has waited longest, whoever it answers.
NextLine(queue) == Head(queue)

\* The inbound queue after a read that failed.
Lost(queue) == IF queue = <<>> THEN queue ELSE Tail(queue)

(***************************************************************************)
(* The arguments the caller passes.                                        *)
(***************************************************************************)
al == <<"a","l">>
dave == <<"d","a","v","e">>
nick9 == <<"a","b","c","d","e","f","g","h","i">>
toolongnickname == <<"t","o","o","l","o","n","g","n","i","c","k","n","a","m","e">>
hello == <<"h","e","l","l","o">>
Filler(n) == [k \in 1 .. n |-> "x"]

ConnectNames == {<<>>, alice, nick9, nick9 \o <<"j">>, toolongnickname}
RoomNumbers == (-1 .. LAST_ROOM) \cup {MAX_ROOM_NUMBER, MAX_ROOM_NUMBER + 1}
LobbyMessages == {hello, Filler(MAX_LOBBY_MESSAGE), Filler(MAX_LOBBY_MESSAGE + 1)}
InviteNames == {bob, al, dave}

(***************************************************************************)
(* A call in progress.  loc holds the locals that live across transport    *)
(* calls (i: roomNumber, the loop index of irc_getAvailableRoom, isRoom,   *)
(* or the count of commands sent; buf: recvBuffer) and, for the            *)
(* properties, currentRoom and the topics as they were when the call       *)
(* began.  io is the list of the transport calls the call has made.        *)
(***************************************************************************)
NoOp == [name |-> "none", arg |-> 0]

Locals(cr, tp) == [i |-> 0, buf |-> <<>>, cr0 |-> cr, topic0 |-> tp]
IdleLocals == Locals(-1, [n \in Rooms |-> NoTopic])

Done(l, v) == [pc |-> "done", ret |-> v, loc |-> l]
Goto(l, label) == [pc |-> label, ret |-> NoRet, loc |-> l]

IoCall(call, data, r) == [call |-> call, data |-> data, r |-> r]

Init ==
    /\ unit \in {"part_000", "irc.c"}
    /\ topic \in [Rooms -> Statuses]
    /\ joined = [s \in OneSession |-> {}]
    /\ inq = [s \in OneSession |-> <<>>]
    /\ unsol = 0
    /\ currentRoom = [s \in OneSession |-> -1]
    /\ pc = [s \in OneSession |-> "idle"]
    /\ op = [s \in OneSession |-> NoOp]
    /\ loc = [s \in OneSession |-> IdleLocals]
    /\ io = [s \in OneSession |-> <<>>]
    /\ ret = [s \in OneSession |-> NoRet]

\* The caller calls function name with argument arg; k is where the
\* function stands when it reaches its first transport call or returns.
Fresh(s) == Locals(currentRoom[s], topic)

Enter(s, name, arg, k) ==
    /\ pc[s] = "idle"
    /\ op' = [op EXCEPT ![s] = [name |-> name, arg |-> arg]]
    /\ pc' = [pc EXCEPT ![s] = k.pc]
    /\ ret' = [ret EXCEPT ![s] = k.ret]
    /\ loc' = [loc EXCEPT ![s] = k.loc]
    /\ io' = [io EXCEPT ![s] = <<>>]
    /\ UNCHANGED <<unit, topic, joined, inq, unsol, currentRoom>>

\* One transport call of the function in progress, and the code up to the
\* next one.
Step(s, call, k) ==
    /\ io' = [io EXCEPT ![s] = Append(@, call)]
    /\ pc' = [pc EXCEPT ![s] = k.pc]
    /\ ret' = [ret EXCEPT ![s] = k.ret]
    /\ loc' = [loc EXCEPT ![s] = k.loc]
    /\ UNCHANGED <<unit, op, unsol>>

(***************************************************************************)
(* irc_connect                                                             *)
(***************************************************************************)
\* part_000: the nickname the function refuses
NameOutOfRange(name) ==
    LET nameSize == Len(name) IN nameSize = 0 \/ nameSize > MAX_NICK

irc_connect(s, name) ==
    Enter(s, "connect", name,
          IF unit = "part_000" /\ NameOutOfRange(name)
          THEN Done(Fresh(s), IntRet(PARAMETER_OUT_OF_RANGE))
          ELSE Goto(Fresh(s), "connect_open"))

irc_connect_open(s) ==
    /\ pc[s] = "connect_open"
    /\ \E connectRet \in TransportResults :
          Step(s, IoCall("connect", <<>>, connectRet),
               IF connectRet # NO_ERROR
               THEN Done(loc[s], IntRet(connectRet))
               ELSE Goto(loc[s], "connect_send"))
    /\ UNCHANGED <<topic, joined, inq, currentRoom>>

\* part_000: one network_send of the whole sequence.  sprintf has written
\* the sequence's terminating NUL one byte past the malloc'ed block.
irc_connect_send(s) ==
    /\ unit = "part_000"
    /\ pc[s] = "connect_send"
    /\ \E sendRet \in TransportResults :
       \E out \in {IntRet(sendRet)} \cup Undefined :
          Step(s, IoCall("send", CommandSequence(op[s].arg), sendRet),
               Done(loc[s], out))
    /\ UNCHANGED <<topic, joined, inq, currentRoom>>

\* irc.c: four calls of network_send, their results not looked at
irc_connect_send_irc_c(s) ==
    /\ unit = "irc.c"
    /\ pc[s] = "connect_send"
    /\ \E sendRet \in TransportResults :
          Step(s, IoCall("send", ConnectCommands(op[s].arg)[loc[s].i + 1], sendRet),
               IF loc[s].i + 1 = Len(ConnectCommands(op[s].arg))
               THEN Done(loc[s], IntRet(NO_ERROR))
               ELSE Goto([loc[s] EXCEPT !.i = @ + 1], "connect_send"))
    /\ UNCHANGED <<topic, joined, inq, currentRoom>>

(***************************************************************************)
(* irc_disconnect                                                          *)
(***************************************************************************)
irc_disconnect(s) ==
    Enter(s, "disconnect", 0, Goto(Fresh(s), "quit_send"))

\* irc_disconnect with the test of sendRet left out
AfterQuit_Unchecked(l, sendRet) == Goto(l, "disconnect")

\* irc_disconnect, from the return of the QUIT's network_send
AfterQuit(l, sendRet) ==
    IF sendRet # NO_ERROR THEN Done(l, IntRet(sendRet))
    ELSE Goto(l, "disconnect")

irc_disconnect_send(s) ==
    /\ pc[s] = "quit_send"
    /\ \E sendRet \in TransportResults :
          Step(s, IoCall("send", S_QUIT, sendRet), AfterQuit(loc[s], sendRet))
    /\ UNCHANGED <<topic, joined, inq, currentRoom>>

irc_disconnect_close(s) ==
    /\ pc[s] = "disconnect"
    /\ \E disconnRet \in TransportResults :
          Step(s, IoCall("disconnect", <<>>, disconnRet),
               Done(loc[s], IntRet(disconnRet)))
    /\ UNCHANGED <<topic, joined, inq, currentRoom>>

(***************************************************************************)
(* irc_joinRoom, irc_leaveRoom, irc_sendLobbyMessage                       *)
(***************************************************************************)
RoomOutOfRange(roomNumber) == roomNumber < 0 \/ roomNumber > MAX_ROOM_NUMBER

irc_joinRoom(s, roomNumber) ==
    Enter(s, "joinRoom", roomNumber,
          IF RoomOutOfRange(roomNumber)
          THEN Done(Fresh(s), IntRet(PARAMETER_OUT_OF_RANGE))
          ELSE Goto([Fresh(s) EXCEPT !.i = roomNumber], "join_send"))

\* irc_joinRoom with the test of sendRet left out
JoinedRoom_Unchecked(cr, roomNumber, sendRet) == roomNumber

\* currentRoom after irc_joinRoom's network_send has returned sendRet
JoinedRoom(cr, roomNumber, sendRet) ==
    IF sendRet # NO_ERROR THEN cr ELSE roomNumber

irc_joinRoom_send(s) ==
    /\ pc[s] = "join_send"
    /\ \E sendRet \in TransportResults :
          /\ Step(s, IoCall("send", JoinCommand(RoomName(loc[s].i)), sendRet),
                  Done(loc[s], IntRet(sendRet)))
          /\ currentRoom' = [currentRoom EXCEPT
                                ![s] = JoinedRoom(@, loc[s].i, sendRet)]
          /\ joined' = IF sendRet = NO_ERROR
                       THEN [joined EXCEPT ![s] = @ \cup {loc[s].i}]
                       ELSE joined
    /\ UNCHANGED <<topic, inq>>

irc_leaveRoom(s) ==
    Enter(s, "leaveRoom", 0,
          IF currentRoom[s] < 0
          THEN Done(Fresh(s), IntRet(LEAVE_ROOM_ERROR))
          ELSE Goto(Fresh(s), "part_send"))

\* irc_leaveRoom with the reset of currentRoom left out
LeftRoom_Kept(cr, sendRet) == cr

\* currentRoom after irc_leaveRoom's network_send has returned sendRet
LeftRoom(cr, sendRet) == IF sendRet # NO_ERROR THEN cr ELSE -1

irc_leaveRoom_send(s) ==
    /\ pc[s] = "part_send"
    /\ \E sendRet \in TransportResults :
          /\ Step(s, IoCall("send", PartCommand(RoomName(currentRoom[s])), sendRet),
                  Done(loc[s], IntRet(sendRet)))
          /\ currentRoom' = [currentRoom EXCEPT ![s] = LeftRoom(@, sendRet)]
          /\ joined' = IF sendRet = NO_ERROR
                       THEN [joined EXCEPT ![s] = @ \ {currentRoom[s]}]
                       ELSE joined
    /\ UNCHANGED <<topic, inq>>

\* irc_sendLobbyMessage refusing a message of MAX_LOBBY_MESSAGE characters
MessageTooLong_Strict(message) == Len(message) >= MAX_LOBBY_MESSAGE

\* The message irc_sendLobbyMessage refuses
MessageTooLong(message) == Len(message) > MAX_LOBBY_MESSAGE

irc_sendLobbyMessage(s, message) ==
    Enter(s, "sendLobbyMessage", message,
          IF MessageTooLong(message)
          THEN Done(Fresh(s), IntRet(MESSAGE_TOO_LONG))
          ELSE Goto(Fresh(s), "privmsg_send"))

irc_sendLobbyMessage_send(s) ==
    /\ pc[s] = "privmsg_send"
    /\ \E sendRet \in TransportResults :
          Step(s, IoCall("send", LobbyMessageCommand(op[s].arg), sendRet),
               Done(loc[s], IntRet(sendRet)))
    /\ UNCHANGED <<topic, joined, inq, currentRoom>>

(***************************************************************************)
(* irc_createRoom, irc_getAvailableRoom and irc_toggleRoomStatus.          *)
(* irc_createRoom calls irc_getAvailableRoom, which calls                  *)
(* irc_toggleRoomStatus in a loop; op[s].name is the function the caller   *)
(* called, and tells where a return goes.                                  *)
(***************************************************************************)
\* irc_createRoom, from the return of irc_getAvailableRoom to its JOIN
CreateRoomChecks(l, cr, roomNumber) ==
    IF roomNumber = -1 THEN Done(l, IntRet(-1))
    ELSE IF cr # -1 THEN Done(l, IntRet(-1))
    ELSE Goto([l EXCEPT !.i = roomNumber], "create_join")

\* irc_getAvailableRoom returns v
AvailableRoomReturns(name, l, cr, v) ==
    IF name = "getAvailableRoom" THEN Done(l, IntRet(v))
    ELSE CreateRoomChecks(l, cr, v)

\* irc_getAvailableRoom's loop, from the return of irc_toggleRoomStatus(i)
\* with isUsed to the next call of it, or to the function's return
AvailableRoomLoop(name, l, cr, isUsed) ==
    IF isUsed = 0 THEN AvailableRoomReturns(name, l, cr, l.i)
    ELSE IF l.i + 1 <= LAST_ROOM
         THEN Goto([l EXCEPT !.i = @ + 1, !.buf = <<>>], "topic_fetch")
    ELSE AvailableRoomReturns(name, l, cr, -1)

\* irc_toggleRoomStatus returns v
ToggleReturns(name, l, cr, v) ==
    IF name = "toggleRoomStatus" THEN Done(l, IntRet(v))
    ELSE AvailableRoomLoop(name, l, cr, v)

irc_toggleRoomStatus(s, roomNumber) ==
    Enter(s, "toggleRoomStatus", roomNumber,
          IF unit = "part_000" /\ RoomOutOfRange(roomNumber)
          THEN Done(Fresh(s), IntRet(PARAMETER_OUT_OF_RANGE))
          ELSE Goto([Fresh(s) EXCEPT !.i = roomNumber], "topic_fetch"))

irc_getAvailableRoom(s) ==
    Enter(s, "getAvailableRoom", 0, Goto(Fresh(s), "topic_fetch"))

irc_createRoom(s) ==
    Enter(s, "createRoom", 0, Goto(Fresh(s), "topic_fetch"))

\* network_send of the topic fetch
irc_toggleRoomStatus_fetch(s) ==
    /\ pc[s] = "topic_fetch"
    /\ \E sendRet \in TransportResults :
          /\ Step(s, IoCall("send", FetchTopicCommand(RoomName(loc[s].i)), sendRet),
                  IF sendRet # NO_ERROR
                  THEN ToggleReturns(op[s].name, loc[s], currentRoom[s], sendRet)
                  ELSE Goto(loc[s], "topic_read"))
          /\ inq' = IF sendRet = NO_ERROR
                    THEN [inq EXCEPT ![s] = Append(@, TopicReply(loc[s].i))]
                    ELSE inq
    /\ UNCHANGED <<topic, joined, currentRoom>>

\* What irc_toggleRoomStatus does with the line recvBuffer: part_000 goes
\* on to set the other status or returns TOGGLE_ROOM_STATUS_ERROR; irc.c
\* returns the status it read.
ToggleClassifies(name, l, cr, recvBuffer) ==
    IF unit = "part_000"
    THEN IF NewTopic(recvBuffer) = <<>>
         THEN ToggleReturns(name, l, cr, TOGGLE_ROOM_STATUS_ERROR)
         ELSE Goto([l EXCEPT !.buf = recvBuffer], "topic_set")
    ELSE ToggleReturns(name, l, cr, TopicStatus(recvBuffer))

\* network_read of one line; the call waits for a line to read
irc_toggleRoomStatus_read(s) ==
    /\ pc[s] = "topic_read"
    /\ \E readRet \in TransportResults :
          IF readRet # NO_ERROR
          THEN /\ Step(s, IoCall("read", <<>>, readRet),
                       ToggleReturns(op[s].name, loc[s], currentRoom[s], readRet))
               /\ inq' = [inq EXCEPT ![s] = Lost(@)]
          ELSE /\ inq[s] # <<>>
               /\ Step(s, IoCall("read", NextLine(inq[s]), readRet),
                       ToggleClassifies(op[s].name, loc[s], currentRoom[s],
                                        NextLine(inq[s])))
               /\ inq' = [inq EXCEPT ![s] = Tail(@)]
    /\ UNCHANGED <<topic, joined, currentRoom>>

\* The topic the server holds for room number n.
TopicOf(n) == IF n \in Rooms THEN topic[n] ELSE NoTopic

\* A toggle done by the server on the topic it holds, not on the line read
StatusToSet_Atomic(recvBuffer, serverTopic) ==
    IF serverTopic = WAITING THEN PLAYING ELSE WAITING

\* part_000: the status the function sets, chosen from the line it read
\* some time ago; what the room's topic has become since is not looked at
StatusToSet(recvBuffer, serverTopic) == NewTopic(recvBuffer)

\* part_000: network_send of the new topic; its result is assigned to
\* sendRet and not looked at
irc_toggleRoomStatus_set(s) ==
    /\ pc[s] = "topic_set"
    /\ \E sendRet \in TransportResults :
          /\ Step(s, IoCall("send",
                            SetTopicCommand(RoomName(loc[s].i),
                                            StatusToSet(loc[s].buf, TopicOf(loc[s].i))),
                            sendRet),
                  ToggleReturns(op[s].name, loc[s], currentRoom[s], NO_ERROR))
          /\ topic' = IF sendRet = NO_ERROR /\ loc[s].i \in Rooms
                      THEN [topic EXCEPT ![loc[s].i] =
                                StatusToSet(loc[s].buf, TopicOf(loc[s].i))]
                      ELSE topic
    /\ UNCHANGED <<joined, inq, currentRoom>>

irc_createRoom_join(s) ==
    /\ pc[s] = "create_join"
    /\ \E sendRet \in TransportResults :
          /\ Step(s, IoCall("send", JoinCommand(RoomName(loc[s].i)), sendRet),
                  IF sendRet # NO_ERROR
                  THEN Done(loc[s], IntRet(sendRet))
                  ELSE Goto(loc[s], "create_topic"))
          /\ joined' = IF sendRet = NO_ERROR
                       THEN [joined EXCEPT ![s] = @ \cup {loc[s].i}]
                       ELSE joined
    /\ UNCHANGED <<topic, inq, currentRoom>>

\* irc_createRoom giving the room up at its end
CreatedRoom_None(roomNumber, sendRet) ==
    IF sendRet # NO_ERROR THEN sendRet ELSE -1

\* What irc_createRoom returns once its topic send has returned sendRet
CreatedRoom(roomNumber, sendRet) ==
    IF sendRet # NO_ERROR THEN sendRet ELSE roomNumber

irc_createRoom_topic(s) ==
    /\ pc[s] = "create_topic"
    /\ \E sendRet \in TransportResults :
          /\ Step(s, IoCall("send", SetTopicCommand(RoomName(loc[s].i), WAITING),
                            sendRet),
                  Done(loc[s], IntRet(CreatedRoom(loc[s].i, sendRet))))
          /\ topic' = IF sendRet = NO_ERROR
                      THEN [topic EXCEPT ![loc[s].i] = WAITING]
                      ELSE topic
    /\ UNCHANGED <<joined, inq, currentRoom>>

(***************************************************************************)
(* irc_getNames and irc_invite, which only part_000 has                    *)
(***************************************************************************)
\* irc_invite, from the return of irc_getNames(0) to its network_send
InviteChecks(l, nickname, channelNames) ==
    IF channelNames.kind = "undefined" THEN Done(l, channelNames)
    ELSE IF channelNames.kind = "null" THEN Done(l, IntRet(-2))
    ELSE IF ~ strstr(channelNames.val, nickname) THEN Done(l, IntRet(-3))
    ELSE Goto(l, "invite_send")

\* irc_getNames returns names
NamesReturns(o, l, names) ==
    IF o.name = "getNames" THEN Done(l, names)
    ELSE InviteChecks(l, o.arg, names)

irc_getNames(s, isRoom) ==
    unit = "part_000" /\
    Enter(s, "getNames", isRoom,
          IF isRoom # 0 /\ currentRoom[s] = -1
          THEN Done(Fresh(s), NullRet)
          ELSE Goto([Fresh(s) EXCEPT !.i = isRoom], "names_send"))

irc_invite(s, nickname) ==
    unit = "part_000" /\
    Enter(s, "invite", nickname,
          IF currentRoom[s] = -1
          THEN Done(Fresh(s), IntRet(-1))
          ELSE Goto(Fresh(s), "names_send"))

NamesChannel(isRoom, cr) == IF isRoom # 0 THEN RoomName(cr) ELSE LOBBY_CHANNEL

irc_getNames_send(s) ==
    /\ pc[s] = "names_send"
    /\ \E sendRet \in TransportResults :
          /\ Step(s, IoCall("send",
                            NamesCommand(NamesChannel(loc[s].i, currentRoom[s])),
                            sendRet),
                  IF sendRet # NO_ERROR
                  THEN NamesReturns(op[s], loc[s], NullRet)
                  ELSE Goto(loc[s], "names_read"))
          /\ inq' = IF sendRet = NO_ERROR
                    THEN [inq EXCEPT ![s] = Append(@,
                            NamesReply(NamesChannel(loc[s].i, currentRoom[s])))]
                    ELSE inq
    /\ UNCHANGED <<topic, joined, currentRoom>>

irc_getNames_read(s) ==
    /\ pc[s] = "names_read"
    /\ \E readRet \in TransportResults :
          IF readRet # NO_ERROR
          THEN /\ Step(s, IoCall("read", <<>>, readRet),
                       NamesReturns(op[s], loc[s], NullRet))
               /\ inq' = [inq EXCEPT ![s] = Lost(@)]
          ELSE /\ inq[s] # <<>>
               /\ \E names \in NamesOf(NextLine(inq[s])) :
                     Step(s, IoCall("read", NextLine(inq[s]), readRet),
                          NamesReturns(op[s],
                                       [loc[s] EXCEPT !.buf = NextLine(inq[s])],
                                       names))
               /\ inq' = [inq EXCEPT ![s] = Tail(@)]
    /\ UNCHANGED <<topic, joined, currentRoom>>

irc_invite_send(s) ==
    /\ pc[s] = "invite_send"
    /\ \E sendRet \in TransportResults :
          Step(s, IoCall("send", InviteCommand(RoomName(currentRoom[s]), op[s].arg),
                         sendRet),
               Done(loc[s], IntRet(sendRet)))
    /\ UNCHANGED <<topic, joined, inq, currentRoom>>

(***************************************************************************)
(* getNextMessage, which only part_000 has: network_readLine, its result   *)
(* not looked at, and the parse of the buffer, which a failed read leaves  *)
(* uninitialized.                                                          *)
(***************************************************************************)
getNextMessage_call(s) ==
    unit = "part_000" /\
    Enter(s, "getNextMessage", 0, Goto(Fresh(s), "line_read"))

getNextMessage_read(s) ==
    /\ pc[s] = "line_read"
    /\ \E readRet \in TransportResults :
          IF readRet # NO_ERROR
          THEN /\ \E message \in Undefined :
                     Step(s, IoCall("read", <<>>, readRet), Done(loc[s], message))
               /\ inq' = [inq EXCEPT ![s] = Lost(@)]
          ELSE /\ inq[s] # <<>>
               /\ \E message \in getNextMessage(NextLine(inq[s])) :
                     Step(s, IoCall("read", NextLine(inq[s]), readRet),
                          Done([loc[s] EXCEPT !.buf = NextLine(inq[s])], message))
               /\ inq' = [inq EXCEPT ![s] = Tail(@)]
    /\ UNCHANGED <<topic, joined, currentRoom>>

(***************************************************************************)
(* The caller takes the result; the server sends a line unasked.           *)
(***************************************************************************)
Return(s) ==
    /\ pc[s] = "done"
    /\ pc' = [pc EXCEPT ![s] = "idle"]
    /\ op' = [op EXCEPT ![s] = NoOp]
    /\ loc' = [loc EXCEPT ![s] = IdleLocals]
    /\ io' = [io EXCEPT ![s] = <<>>]
    /\ ret' = [ret EXCEPT ![s] = NoRet]
    /\ UNCHANGED <<unit, topic, joined, inq, unsol, currentRoom>>

Unsolicited(s, line) ==
    /\ unsol < MaxUnsolicited
    /\ unsol' = unsol + 1
    /\ inq' = [inq EXCEPT ![s] = Append(@, line)]
    /\ UNCHANGED <<unit, topic, joined, currentRoom, pc, op, loc, io, ret>>

Next ==
    \E s \in Sessions :
       \/ \E name \in ConnectNames : irc_connect(s, name)
       \/ irc_connect_open(s)
       \/ irc_connect_send(s)
       \/ irc_connect_send_irc_c(s)
       \/ irc_disconnect(s)
       \/ irc_disconnect_send(s)
       \/ irc_disconnect_close(s)
       \/ \E roomNumber \in RoomNumbers : irc_joinRoom(s, roomNumber)
       \/ irc_joinRoom_send(s)
       \/ irc_leaveRoom(s)
       \/ irc_leaveRoom_send(s)
       \/ \E message \in LobbyMessages : irc_sendLobbyMessage(s, message)
       \/ irc_sendLobbyMessage_send(s)
       \/ \E roomNumber \in RoomNumbers : irc_toggleRoomStatus(s, roomNumber)
       \/ irc_getAvailableRoom(s)
       \/ irc_createRoom(s)
       \/ irc_toggleRoomStatus_fetch(s)
       \/ irc_toggleRoomStatus_read(s)
       \/ irc_toggleRoomStatus_set(s)
       \/ irc_createRoom_join(s)
       \/ irc_createRoom_topic(s)
       \/ \E isRoom \in {0, 1} : irc_getNames(s, isRoom)
       \/ \E nickname \in InviteNames : irc_invite(s, nickname)
       \/ irc_getNames_send(s)
       \/ irc_getNames_read(s)
       \/ irc_invite_send(s)
       \/ Return(s)

\* The calls of the public functions, against a server that sends nothing
\* but the answers.
Spec == Init /\ [][Next]_vars

\* The same, against a server that also sends lines unasked.
NextUnsolicited ==
    \/ Next
    \/ \E s \in Sessions : \E line \in UnsolicitedLines : Unsolicited(s, line)

SpecUnsolicited == Init /\ [][NextUnsolicited]_vars

(***************************************************************************)
(* getNextMessage on its own: the line waiting in the inbound queue is     *)
(* drawn from ParseLines, and the only calls are calls of getNextMessage.  *)
(***************************************************************************)
E_PREFIX == <<"n","i","c","k","!","u","s","e","r","@","h","o","s","t">>
E_COMMAND == <<"P","R","I","V","M","S","G">>
E_TRAILING == <<"h","e","l","l","o"," ","t","h","e","r","e">>

ParsePrefixes == { <<":">> \o E_PREFIX \o <<" ">>, <<":","a"," ">>, <<":"," ">>, <<>> }
ParseCommands == { E_COMMAND, <<"3","3","2">> }
ParseParams == { <<" ","#","r","o","o","m"," ",":">> \o E_TRAILING,
                 <<" ","b","o","b"," ",":","h","i">>, <<" ">>, <<>> }
ParseEnds == { <<"\n">>, CRLF, <<>> }
ParseLines ==
    { p \o c \o a \o e : p \in ParsePrefixes, c \in ParseCommands,
                         a \in ParseParams, e \in ParseEnds }

InitParse ==
    /\ unit = "part_000"
    /\ topic = [n \in Rooms |-> NoTopic]
    /\ joined = [s \in OneSession |-> {}]
    /\ \E line \in ParseLines : inq = [s \in OneSession |-> <<line>>]
    /\ unsol = 0
    /\ currentRoom = [s \in OneSession |-> -1]
    /\ pc = [s \in OneSession |-> "idle"]
    /\ op = [s \in OneSession |-> NoOp]
    /\ loc = [s \in OneSession |-> IdleLocals]
    /\ io = [s \in OneSession |-> <<>>]
    /\ ret = [s \in OneSession |-> NoRet]

NextParse ==
    \E s \in Sessions :
       \/ getNextMessage_call(s)
       \/ getNextMessage_read(s)
       \/ Return(s)

SpecParse == InitParse /\ [][NextParse]_vars

(***************************************************************************)
(* Two players, each with a program of its own, toggling the status of     *)
(* rooms on the same server.                                               *)
(***************************************************************************)
InitRace ==
    /\ unit \in {"part_000", "irc.c"}
    /\ topic \in [Rooms -> Statuses]
    /\ joined = [s \in TwoSessions |-> {}]
    /\ inq = [s \in TwoSessions |-> <<>>]
    /\ unsol = 0
    /\ currentRoom = [s \in TwoSessions |-> -1]
    /\ pc = [s \in TwoSessions |-> "idle"]
    /\ op = [s \in TwoSessions |-> NoOp]
    /\ loc = [s \in TwoSessions |-> IdleLocals]
    /\ io = [s \in TwoSessions |-> <<>>]
    /\ ret = [s \in TwoSessions |-> NoRet]

NextRace ==
    \E s \in Sessions :
       \/ \E roomNumber \in Rooms : irc_toggleRoomStatus(s, roomNumber)
       \/ irc_toggleRoomStatus_fetch(s)
       \/ irc_toggleRoomStatus_read(s)
       \/ irc_toggleRoomStatus_set(s)
       \/ Return(s)

SpecRace == InitRace /\ [][NextRace]_vars

\* Two players, each creating rooms on the same server.
NextCreateRace ==
    \E s \in Sessions :
       \/ irc_createRoom(s)
       \/ irc_toggleRoomStatus_fetch(s)
       \/ irc_toggleRoomStatus_read(s)
       \/ irc_toggleRoomStatus_set(s)
       \/ irc_createRoom_join(s)
       \/ irc_createRoom_topic(s)
       \/ Return(s)

SpecCreateRace == InitRace /\ [][NextCreateRace]_vars

(***************************************************************************)
(* What the properties speak of.                                           *)
(***************************************************************************)
\* The call of function name has returned and the caller has not yet
\* taken the result.
Finished(s, name) == pc[s] = "done" /\ op[s].name = name

IsSend(e) == e.call = "send"
\* The texts the call has written to the transport, in order.
Sent(s) ==
    LET sends == SelectSeq(io[s], IsSend)
    IN  [k \in 1 .. Len(sends) |-> sends[k].data]
\* The transport calls the call has made after its first n.
IoAfter(s, n) == SubSeq(io[s], n + 1, Len(io[s]))
SentAfter(s, n) ==
    LET sends == SelectSeq(IoAfter(s, n), IsSend)
    IN  [k \in 1 .. Len(sends) |-> sends[k].data]
\* No transport call of the call has failed.
AllSucceeded(s) == \A k \in 1 .. Len(io[s]) : io[s][k].r = NO_ERROR

\* The channel of room number n as the specification writes it: the
\* prefix and the number, zero-padded to three digits.
ChannelOf(n) ==
    ROOM_PREFIX \o (IF n < 10 THEN <<"0","0">> ELSE IF n < 100 THEN <<"0">> ELSE <<>>)
                \o Decimal(n)

\* The handshake as the specification writes it.
Handshake(name) ==
    <<"P","A","S","S"," ","*","\r","\n","N","I","C","K"," ">> \o name
       \o <<"\r","\n","U","S","E","R"," ">> \o name
       \o <<" ","8"," ","*"," ",":">> \o name
       \o <<"\r","\n","J","O","I","N"," ",
            "#","c","r","u","c","e","-","l","o","b","b","y","\r","\n">>

JoinText(n) == <<"J","O","I","N"," ">> \o ChannelOf(n) \o <<"\r","\n">>
SetTopicText(n, status) ==
    <<"T","O","P","I","C"," ">> \o ChannelOf(n) \o <<" ">> \o status \o <<"\r","\n">>
InviteText(n, nickname) ==
    <<"I","N","V","I","T","E"," ">> \o ChannelOf(n) \o <<" ">> \o nickname
       \o <<"\r","\n">>

\* The rooms whose topic is not set.
FreeRooms(tp) == {n \in Rooms : tp[n] = NoTopic}

RECURSIVE Split(_, _)
\* str cut at every sep
Split(str, sep) ==
    LET k == strchr(str, 0, sep)
    IN  IF k = NULL THEN <<str>>
        ELSE <<SubSeq(str, 1, k)>> \o Split(SubSeq(str, k + 2, Len(str)), sep)

RECURSIVE StripEol(_)
\* str without the line end
StripEol(str) ==
    IF Len(str) > 0 /\ str[Len(str)] \in {"\r", "\n"}
    THEN StripEol(SubSeq(str, 1, Len(str) - 1)) ELSE str

\* The nicknames a NAMES answer lists: the tokens after its first ':'.
NamesInLine(line) ==
    LET colon == strchr(line, 0, ":")
    IN  Split(StripEol(SubSeq(line, colon + 2, Len(line))), " ")

InList(x, list) == \E k \in 1 .. Len(list) : list[k] = x

(***************************************************************************)
(* The claims.                                                             *)
(***************************************************************************)

\* C1: when a connect call with a nickname of 1 to 9 characters, whose
\* transport open succeeded, has returned, it has made exactly one
\* transport write, and the text written is "PASS *", "NICK <name>",
\* "USER <name> 8 * :<name>", "JOIN <lobby channel>", each ended by CRLF,
\* in this order.
C1_OneHandshakeWrite ==
    \A s \in Sessions :
       ( /\ Finished(s, "connect")
         /\ Len(op[s].arg) \in 1 .. 9
         /\ Len(io[s]) > 0
         /\ io[s][1] = IoCall("connect", <<>>, NO_ERROR) )
       => Sent(s) = << Handshake(op[s].arg) >>

\* C1, of the program built from part_000 alone.
C1_OneHandshakeWrite_part_000 == unit = "part_000" => C1_OneHandshakeWrite

\* C2: a connect call with a nickname of length 0 or of more than 9
\* characters makes no transport call at all and returns
\* PARAMETER_OUT_OF_RANGE.
C2_BadNicknameNoTransport ==
    \A s \in Sessions :
       ( /\ op[s].name = "connect"
         /\ (Len(op[s].arg) = 0 \/ Len(op[s].arg) > 9) )
       => /\ io[s] = <<>>
          /\ pc[s] = "done"
          /\ ret[s] = IntRet(PARAMETER_OUT_OF_RANGE)

\* C2, of the program built from part_000 alone.
C2_BadNicknameNoTransport_part_000 == unit = "part_000" => C2_BadNicknameNoTransport

\* C3: when a toggleRoomStatus call that has read its one answer line has
\* returned: if the line holds WAITING, the call has then sent
\* "TOPIC <channel> PLAYING" and nothing else; if it holds PLAYING,
\* "TOPIC <channel> WAITING" and nothing else; if it holds the no-topic
\* marker, the call has sent nothing more and has returned 0, the value
\* for a topic that is not set; with any other line it has sent nothing
\* more and has returned TOGGLE_ROOM_STATUS_ERROR.
C3_ToggleMapping ==
    \A s \in Sessions :
       ( /\ Finished(s, "toggleRoomStatus")
         /\ Len(io[s]) >= 2
         /\ io[s][2].call = "read"
         /\ io[s][2].r = NO_ERROR )
       => LET line == io[s][2].data
              room == op[s].arg
          IN  IF strstr(line, WAITING)
              THEN SentAfter(s, 2) = << SetTopicText(room, PLAYING) >>
              ELSE IF strstr(line, PLAYING)
              THEN SentAfter(s, 2) = << SetTopicText(room, WAITING) >>
              ELSE IF strstr(line, NO_TOPIC)
              THEN SentAfter(s, 2) = <<>> /\ ret[s] = IntRet(0)
              ELSE /\ SentAfter(s, 2) = <<>>
                   /\ ret[s] = IntRet(TOGGLE_ROOM_STATUS_ERROR)

\* C4: when a getAvailableRoom call none of whose transport calls failed
\* has returned, it has returned the smallest room number whose topic was
\* not set when the call began, and -1 if and only if there was no such
\* room.
C4_SmallestUnsetRoom ==
    \A s \in Sessions :
       (Finished(s, "getAvailableRoom") /\ AllSucceeded(s))
       => ret[s] = IntRet(IF FreeRooms(loc[s].topic0) = {} THEN -1
                          ELSE Min(FreeRooms(loc[s].topic0)))

\* C4, of the program built from irc.c alone.
C4_SmallestUnsetRoom_irc_c == unit = "irc.c" => C4_SmallestUnsetRoom

\* C5: when a createRoom call has returned a room number, currentRoom is
\* that room number.
C5_CreateRoomSetsCurrentRoom ==
    \A s \in Sessions :
       (Finished(s, "createRoom") /\ ret[s].kind = "int" /\ ret[s].val >= 0)
       => currentRoom[s] = ret[s].val

\* C6: when a createRoom call none of whose transport calls failed, begun
\* in no room while some room's topic was not set, has returned, it has
\* returned the smallest such room number k, and the last two texts it
\* sent are "JOIN <channel(k)>" and then "TOPIC <channel(k)> WAITING".
C6_CreateRoomJoinsFirstFree ==
    \A s \in Sessions :
       ( /\ Finished(s, "createRoom")
         /\ AllSucceeded(s)
         /\ loc[s].cr0 = -1
         /\ FreeRooms(loc[s].topic0) # {} )
       => LET k == Min(FreeRooms(loc[s].topic0))
              n == Len(Sent(s))
          IN  /\ ret[s] = IntRet(k)
              /\ n >= 2
              /\ SubSeq(Sent(s), n - 1, n)
                    = << JoinText(k), SetTopicText(k, WAITING) >>

\* C6, of the program built from irc.c alone.
C6_CreateRoomJoinsFirstFree_irc_c == unit = "irc.c" => C6_CreateRoomJoinsFirstFree

\* C7: when an invite call none of whose transport calls failed has
\* returned an int, it has returned 0 if and only if a room was joined
\* and the nickname is one of the space-separated names of the lobby's
\* NAMES answer; and if it has returned 0, the last text it sent is
\* "INVITE <channel(currentRoom)> <nickname>".
C7_InviteWholeToken ==
    \A s \in Sessions :
       (Finished(s, "invite") /\ AllSucceeded(s) /\ ret[s].kind = "int")
       => /\ ret[s].val = 0 <=>
               /\ loc[s].cr0 # -1
               /\ Len(io[s]) >= 2
               /\ InList(op[s].arg, NamesInLine(io[s][2].data))
          /\ ret[s].val = 0 =>
               /\ Sent(s) # <<>>
               /\ Sent(s)[Len(Sent(s))] = InviteText(loc[s].cr0, op[s].arg)

\* C8: when a getNames call that has read its one answer line has returned
\* a string, the space-separated tokens of that string (the line end
\* apart) are the tokens that follow the first ':' of the line, in the
\* line's order, and no token holds that ':'.
C8_NamesAreTokensAfterColon ==
    \A s \in Sessions :
       ( /\ Finished(s, "getNames")
         /\ Len(io[s]) = 2
         /\ io[s][2].r = NO_ERROR
         /\ ret[s].kind = "ptr" )
       => Split(StripEol(ret[s].val), " ") = NamesInLine(io[s][2].data)

\* The line begins with ':', has a space after the prefix, a space after
\* the command and a ':' after that.
PrefixedLine(str) ==
    /\ Len(str) > 0 /\ str[1] = ":"
    /\ strchr(str, 0, " ") # NULL
    /\ strchr(str, strchr(str, 0, " ") + 1, " ") # NULL
    /\ strchr(str, strchr(str, strchr(str, 0, " ") + 1, " "), ":") # NULL

\* The message the specification gives for a prefixed line.
SpecifiedMessage(str) ==
    LET space1 == strchr(str, 0, " ")
        space2 == strchr(str, space1 + 1, " ")
        colon  == strchr(str, space2, ":")
    IN  [ prefix   |-> SubSeq(str, 2, space1),
          command  |-> SubSeq(str, space1 + 2, space2),
          trailing |-> StripEol(SubSeq(str, colon + 2, Len(str))) ]

\* C9: when getNextMessage has read and parsed a prefixed line, the
\* message's prefix is the line's text from index 1 up to its first
\* space, its command the text from there up to the next space, and its
\* trailing the text after the ':' that follows, without the line end.
C9_ParsePrefixedLine ==
    \A s \in Sessions :
       ( /\ Finished(s, "getNextMessage")
         /\ io[s][1].r = NO_ERROR
         /\ PrefixedLine(io[s][1].data) )
       => ret[s] = MsgRet(SpecifiedMessage(io[s][1].data))

\* C10: when a joinRoom(id) call has returned: for an id outside 0..999 it
\* has made no transport call, has returned PARAMETER_OUT_OF_RANGE and
\* currentRoom is what it was; otherwise it has made one transport call,
\* the send of "JOIN <channel(id)>", and either the send succeeded, the
\* call has returned NO_ERROR and currentRoom is id, or the send failed,
\* the call has returned the send's error and currentRoom is what it was.
C10_JoinRoom ==
    \A s \in Sessions :
       Finished(s, "joinRoom")
       => LET id == op[s].arg
          IN  IF id < 0 \/ id > 999
              THEN /\ io[s] = <<>>
                   /\ ret[s] = IntRet(PARAMETER_OUT_OF_RANGE)
                   /\ currentRoom[s] = loc[s].cr0
              ELSE /\ Len(io[s]) = 1
                   /\ io[s][1].call = "send"
                   /\ io[s][1].data = JoinText(id)
                   /\ ret[s] = IntRet(io[s][1].r)
                   /\ currentRoom[s] = IF io[s][1].r = NO_ERROR THEN id
                                       ELSE loc[s].cr0

\* A joinRoom call made in one room has succeeded and moved currentRoom
\* to another.
C10_Witness ==
    \E s \in Sessions :
       /\ Finished(s, "joinRoom")
       /\ ret[s] = IntRet(NO_ERROR)
       /\ loc[s].cr0 \notin {-1, op[s].arg}
       /\ currentRoom[s] = op[s].arg

\* The PART and the lobby message as the specification writes them.
PartText(n) == <<"P","A","R","T"," ">> \o ChannelOf(n) \o <<"\r","\n">>
LobbyText(text) ==
    <<"P","R","I","V","M","S","G"," ",
      "#","c","r","u","c","e","-","l","o","b","b","y"," ">> \o text \o <<"\r","\n">>

\* C11: when a leaveRoom call has returned: begun in no room, it has made
\* no transport call and has returned LEAVE_ROOM_ERROR; begun in a room,
\* it has made one transport call, the send of "PART <channel>" for that
\* room, has returned the send's result, and currentRoom is none if the
\* send succeeded and what it was if the send failed.
C11_LeaveRoom ==
    \A s \in Sessions :
       Finished(s, "leaveRoom")
       => IF loc[s].cr0 = -1
          THEN /\ io[s] = <<>>
               /\ ret[s] = IntRet(LEAVE_ROOM_ERROR)
               /\ currentRoom[s] = -1
          ELSE /\ Len(io[s]) = 1
               /\ io[s][1].call = "send"
               /\ io[s][1].data = PartText(loc[s].cr0)
               /\ ret[s] = IntRet(io[s][1].r)
               /\ currentRoom[s] = IF io[s][1].r = NO_ERROR THEN -1
                                   ELSE loc[s].cr0

\* A leaveRoom call made in a room has succeeded and left the session in
\* no room.
C11_Witness ==
    \E s \in Sessions :
       /\ Finished(s, "leaveRoom")
       /\ loc[s].cr0 >= 0
       /\ ret[s] = IntRet(NO_ERROR)
       /\ currentRoom[s] = -1

\* C12: in a disconnect call the first transport call is the send of
\* "QUIT\r\n"; the transport is closed only as the second call and only
\* after a QUIT send that succeeded; a call whose QUIT send failed has
\* returned that send's error with the send as its only transport call,
\* and a call whose QUIT send succeeded returns the result of the close.
C12_Disconnect ==
    \A s \in Sessions :
       op[s].name = "disconnect"
       => /\ \A k \in 1 .. Len(io[s]) :
                IF k = 1
                THEN io[s][k].call = "send" /\ io[s][k].data = S_QUIT
                ELSE /\ k = 2
                     /\ io[s][k].call = "disconnect"
                     /\ io[s][1].r = NO_ERROR
          /\ (Len(io[s]) >= 1 /\ io[s][1].r # NO_ERROR)
                => pc[s] = "done" /\ ret[s] = IntRet(io[s][1].r)
          /\ pc[s] = "done"
                => /\ Len(io[s]) >= 1
                   /\ ret[s] = IntRet(io[s][Len(io[s])].r)
                   /\ io[s][1].r = NO_ERROR => Len(io[s]) = 2

\* A disconnect call whose QUIT send failed has returned.
C12_Witness ==
    \E s \in Sessions :
       /\ Finished(s, "disconnect")
       /\ io[s][1].r # NO_ERROR

\* C16: when a sendLobbyMessage call has returned: for a message of more
\* than 512 characters it has made no transport call and has returned
\* MESSAGE_TOO_LONG; otherwise it has made one transport call, the send
\* of "PRIVMSG <lobby channel> <message>\r\n", and has returned that
\* send's result.
C16_SendLobbyMessage ==
    \A s \in Sessions :
       Finished(s, "sendLobbyMessage")
       => IF Len(op[s].arg) > 512
          THEN io[s] = <<>> /\ ret[s] = IntRet(MESSAGE_TOO_LONG)
          ELSE /\ Len(io[s]) = 1
               /\ io[s][1].call = "send"
               /\ io[s][1].data = LobbyText(op[s].arg)
               /\ ret[s] = IntRet(io[s][1].r)

\* A message of exactly 512 characters has been sent.
C16_Witness ==
    \E s \in Sessions :
       /\ Finished(s, "sendLobbyMessage")
       /\ Len(op[s].arg) = 512
       /\ Len(io[s]) = 1
       /\ ret[s] = IntRet(NO_ERROR)

\* The entry of io is the send of a JOIN.
IsJoin(e) == e.call = "send" /\ SubSeq(e.data, 1, 5) = <<"J","O","I","N"," ">>
\* The entry of io is the send of a PART.
IsPart(e) == e.call = "send" /\ SubSeq(e.data, 1, 5) = <<"P","A","R","T"," ">>
\* The text of a topic fetch as the specification writes it.
FetchTopicText(n) == <<"T","O","P","I","C"," ">> \o ChannelOf(n) \o <<"\r","\n">>

\* C13: a createRoom call begun while currentRoom is not none makes no
\* transport call at all, changes no room's topic, and has returned a
\* failure as soon as it was called.
C13_AlreadyInRoomBeforeScan ==
    \A s \in Sessions :
       (op[s].name = "createRoom" /\ loc[s].cr0 # -1)
       => /\ io[s] = <<>>
          /\ topic = loc[s].topic0
          /\ pc[s] = "done"
          /\ ret[s].kind = "int" /\ ret[s].val < 0

\* C14: when a createRoom call whose JOIN send succeeded and whose send of
\* "TOPIC <channel> WAITING" then failed has returned, it has returned a
\* failure that is not a value a failed JOIN send makes it return, it has
\* sent no PART, and the session is still joined to the room.
C14_PartialRoomCreation ==
    \A s \in Sessions :
       ( /\ Finished(s, "createRoom")
         /\ Len(io[s]) >= 2
         /\ IsJoin(io[s][Len(io[s]) - 1])
         /\ io[s][Len(io[s]) - 1].r = NO_ERROR
         /\ io[s][Len(io[s])].call = "send"
         /\ io[s][Len(io[s])].r # NO_ERROR )
       => /\ ret[s].kind = "int" /\ ret[s].val < 0
          /\ ret[s].val \notin NetworkErrors
          /\ \A k \in 1 .. Len(io[s]) : ~ IsPart(io[s][k])
          /\ loc[s].i \in joined[s]

\* C15: when a getNames call has read a line that holds no ':', it has
\* returned NULL, its value for a failure, and no names.
C15_NoColonIsAnError ==
    \A s \in Sessions :
       ( /\ Finished(s, "getNames")
         /\ Len(io[s]) = 2
         /\ io[s][2].call = "read"
         /\ io[s][2].r = NO_ERROR
         /\ strchr(io[s][2].data, 0, ":") = NULL )
       => ret[s] = NullRet

\* C19: all the way through a getAvailableRoom call, every transport
\* send is a topic fetch, the rooms fetched are 0, 1, 2, ... in this
\* order, and every room's topic is what it was when the call began; and
\* when the call has returned with no transport failure, the last room
\* fetched is the first whose topic is not set, if there is one.
C19_ScanIsReadOnly ==
    \A s \in Sessions :
       op[s].name = "getAvailableRoom"
       => /\ \A k \in 1 .. Len(Sent(s)) : Sent(s)[k] = FetchTopicText(k - 1)
          /\ topic = loc[s].topic0
          /\ (pc[s] = "done" /\ AllSucceeded(s) /\ FreeRooms(loc[s].topic0) # {})
                => Len(Sent(s)) = Min(FreeRooms(loc[s].topic0)) + 1

\* The functions the caller calls.
Operations ==
    {"connect", "disconnect", "joinRoom", "leaveRoom", "sendLobbyMessage",
     "toggleRoomStatus", "createRoom", "getNames", "invite"}

\* The value is one by which the function tells its caller of a failure.
IsFailure(name, v) ==
    IF name = "getNames" THEN v.kind = "null"
    ELSE /\ v.kind = "int"
         /\ IF name = "createRoom" THEN v.val < 0 ELSE v.val # NO_ERROR

\* C20: when a call of one of the nine operations, one of whose transport
\* calls failed, has returned, it has returned a failure.
C20_FailurePropagates ==
    \A s \in Sessions :
       (pc[s] = "done" /\ op[s].name \in Operations /\ ~ AllSucceeded(s))
       => IsFailure(op[s].name, ret[s])

\* Session s has returned from a toggleRoomStatus call on room n in which
\* it read the room's topic as WAITING and its topic-set send succeeded.
ToggledFromWaiting(s, n) ==
    /\ Finished(s, "toggleRoomStatus") /\ op[s].arg = n
    /\ Len(io[s]) = 3
    /\ io[s][2].call = "read" /\ io[s][2].r = NO_ERROR
    /\ strstr(io[s][2].data, WAITING)
    /\ io[s][3].r = NO_ERROR

\* Session t, in a toggleRoomStatus call on room n, has read the room's
\* topic as WAITING and has not yet sent the topic it sets.
AboutToToggleFromWaiting(t, n) ==
    /\ op[t].name = "toggleRoomStatus" /\ op[t].arg = n
    /\ pc[t] = "topic_set"
    /\ strstr(loc[t].buf, WAITING)

\* C17: with part_000, when two sessions are in toggleRoomStatus calls on
\* the same room, both have read its topic as WAITING, one has already
\* set it to PLAYING and the other then makes its topic-set send, that
\* send is "TOPIC <channel> PLAYING" too, and if it succeeds the room is
\* PLAYING after the two toggles, not back at WAITING.
C17_ToggleRace ==
    [][ \A s, t \in Sessions : \A n \in Rooms :
           ( /\ unit = "part_000"
             /\ s # t
             /\ ToggledFromWaiting(s, n)
             /\ AboutToToggleFromWaiting(t, n)
             /\ Len(io'[t]) = Len(io[t]) + 1 )
           => /\ io'[t][Len(io'[t])].call = "send"
              /\ io'[t][Len(io'[t])].data = SetTopicText(n, PLAYING)
              /\ io'[t][Len(io'[t])].r = NO_ERROR => topic'[n] = PLAYING ]_vars

\* Both sessions read room n as WAITING before either set a topic; one
\* has since set PLAYING, and the other is about to toggle a room that is
\* no longer what it read.
C17_Witness ==
    \E s, t \in Sessions : \E n \in Rooms :
       /\ s # t
       /\ ToggledFromWaiting(s, n)
       /\ AboutToToggleFromWaiting(t, n)
       /\ topic[n] = PLAYING

\* The entry of io is a read.
IsRead(e) == e.call = "read"
\* The call's place is at a read of an answer line.
AtRead(s) == pc[s] \in {"topic_read", "names_read"}

\* What a toggleRoomStatus call does once it has taken line for the answer
\* to its topic fetch.
ToggleTakes(s, line) ==
    IF unit = "part_000"
    THEN IF strstr(line, WAITING) \/ strstr(line, PLAYING)
         THEN pc'[s] = "topic_set"
         ELSE pc'[s] = "done" /\ ret'[s] = IntRet(TOGGLE_ROOM_STATUS_ERROR)
    ELSE /\ pc'[s] = "done"
         /\ ret'[s] = IntRet(IF strstr(line, NO_TOPIC) THEN 0
                             ELSE IF strstr(line, WAITING) THEN 1
                             ELSE IF strstr(line, PLAYING) THEN 2 ELSE -1)

\* What a getNames call does once it has taken line for the answer to its
\* NAMES: it returns, and a string it returns is the line from its first
\* ':' on.
NamesTakes(s, line) ==
    /\ pc'[s] = "done"
    /\ ret'[s].kind \in {"ptr", "undefined"}
    /\ ret'[s].kind = "ptr"
          => /\ strchr(line, 0, ":") # NULL
             /\ ret'[s].val = SubSeq(line, strchr(line, 0, ":") + 1, Len(line))

\* C18: a toggleRoomStatus call and a getNames call never make more than
\* one read; the read that succeeds takes the line at the head of the
\* inbound queue, whatever that line is, and leaves the rest of the queue
\* in place for the next read; and the call goes on with that line as the
\* answer to its command.
C18_NextLineIsTheReply ==
    [][ \A s \in Sessions :
          /\ op'[s].name \in {"toggleRoomStatus", "getNames"}
                => Len(SelectSeq(io'[s], IsRead)) <= 1
          /\ ( /\ AtRead(s)
               /\ Len(io'[s]) = Len(io[s]) + 1
               /\ io'[s][Len(io'[s])].r = NO_ERROR )
             => /\ inq[s] # <<>>
                /\ io'[s][Len(io'[s])] = IoCall("read", Head(inq[s]), NO_ERROR)
                /\ inq'[s] = Tail(inq[s])
                /\ ~ AtRead(s)'
                /\ op[s].name = "toggleRoomStatus" => ToggleTakes(s, Head(inq[s]))
                /\ op[s].name = "getNames" => NamesTakes(s, Head(inq[s])) ]_vars

\* A toggleRoomStatus call has read a line the server sent unasked and has
\* returned, and the answer to its topic fetch is still in the queue, the
\* next line to be read.
C18_Witness ==
    \E s \in Sessions :
       /\ Finished(s, "toggleRoomStatus")
       /\ Len(io[s]) >= 2
       /\ io[s][2].call = "read" /\ io[s][2].r = NO_ERROR
       /\ io[s][2].data \in UnsolicitedLines
       /\ inq[s] # <<>>
       /\ Head(inq[s]) = TopicReply(op[s].arg)

\* C21: between calls, the rooms for which the session has sent a JOIN
\* not yet followed by a PART are none when currentRoom is none, and
\* currentRoom alone otherwise.
C21_JoinedAgreesWithCurrentRoom ==
    \A s \in Sessions :
       pc[s] = "idle"
       => joined[s] = IF currentRoom[s] = -1 THEN {} ELSE {currentRoom[s]}

\* Session s, in no room when it called createRoom, has returned room
\* number k from the call, and none of its transport calls failed.
CreatedRoomNumber(s, k) ==
    /\ Finished(s, "createRoom")
    /\ loc[s].cr0 = -1
    /\ AllSucceeded(s)
    /\ ret[s] = IntRet(k)

\* Session s, in no room when it called createRoom, has joined room
\* number k and set its topic, with no transport failure, and the call has
\* come to its end.
HasCreated(s, k) ==
    /\ Finished(s, "createRoom")
    /\ loc[s].cr0 = -1
    /\ AllSucceeded(s)
    /\ loc[s].i = k
    /\ Len(Sent(s)) >= 2
    /\ SubSeq(Sent(s), Len(Sent(s)) - 1, Len(Sent(s)))
          = << JoinText(k), SetTopicText(k, WAITING) >>

\* Session t, in no room when it called createRoom, has had room number k
\* from irc_getAvailableRoom and has not yet sent its topic for it; none
\* of its transport calls has failed.
AboutToCreate(t, k) ==
    /\ op[t].name = "createRoom"
    /\ loc[t].cr0 = -1
    /\ pc[t] \in {"create_join", "create_topic"}
    /\ loc[t].i = k
    /\ AllSucceeded(t)

====
